---- MODULE Spec2Model ----
(***************************************************************************)
(* Model of slack_cli: the SlackClient wrapper (client.py) with its two    *)
(* identifier caches, and the command layer (commands/*.py) on top of it.  *)
(*                                                                         *)
(* Python strings that the code inspects (startswith, lstrip, ==, or) are  *)
(* sequences of one-character strings.  An optional value is <<>> (None)   *)
(* or <<x>>.  A dict coming from the Web API is a record whose DOMAIN      *)
(* holds exactly the keys that are present.                                *)
(*                                                                         *)
(* The Web API is the environment.  Every API call answers with one of     *)
(*   [kind |-> "ok", body |-> ...]   a success response,                   *)
(*   [kind |-> "api_error"]          slack_sdk raises SlackApiError,       *)
(*   [kind |-> "transport"]          the transport raises something else.  *)
(* An operation of the client is a set-valued operator: the set of its     *)
(* possible runs, one per way the environment can answer its calls.  A run *)
(* is [uc, cc, ret, exc, calls]: the caches afterwards, the returned value *)
(* (wrapped, <<>> when it raised), the exception that left the operation   *)
(* ("none" when it returned) and the log of API calls it issued.           *)
(***************************************************************************)
EXTENDS Integers, Sequences, FiniteSets, TLC

VARIABLES
    user_cache,     \* SlackClient._user_cache
    channel_cache,  \* SlackClient._channel_cache
    last,           \* what the caller observed of the operation that just ran
    fetched         \* history: None, or <<f>> for one earlier successful
                    \* users.info / conversations.info fetch f that an
                    \* observer chose to remember (any one of them)

vars == <<user_cache, channel_cache, last, fetched>>

(* ---------------------------- bounds ----------------------------------- *)
MaxPages  == 2   \* pages the API serves for one listing
MaxListed == 2   \* records the API serves, over all pages of one listing
MaxMessages == 1 \* items (messages, matches, ims) in one unpaginated response

(* ---------------------------- strings ---------------------------------- *)
None    == <<>>
Some(x) == <<x>>

S_C1  == <<"C", "1">>
S_G2  == <<"G", "2">>
S_C9  == <<"C", "9">>
S_U1  == <<"U", "1">>
S_U2  == <<"U", "2">>
S_gen == <<"g", "e", "n">>
S_dev == <<"d", "e", "v">>
S_al  == <<"a", "l">>
S_bo  == <<"b", "o">>
S_Al  == <<"A", "l">>
S_abc == <<"a", "b", "c">>
S_hash_gen  == <<"#", "g", "e", "n">>
S_hash2_gen == <<"#", "#", "g", "e", "n">>
S_at_al     == <<"@", "a", "l">>
S_unknown      == <<"u", "n", "k", "n", "o", "w", "n">>
S_Unknown_User == <<"U", "n", "k", "n", "o", "w", "n", " ", "U", "s", "e", "r">>

\* str.startswith(prefix)
startswith(s, p) == Len(s) >= Len(p) /\ SubSeq(s, 1, Len(p)) = p

\* str.lstrip(chars): drops every leading character that is in chars
RECURSIVE lstrip(_, _)
lstrip(s, chars) ==
    IF s # <<>> /\ s[1] \in chars THEN lstrip(Tail(s), chars) ELSE s

\* dict.get(key, default)
Get(d, key, default) == IF key \in DOMAIN d THEN d[key] ELSE default

\* dict item assignment  cache[k] = v
Put(cache, k, v) == (k :> v) @@ cache

(* ------------------------ the Web API (environment) -------------------- *)
ApiError  == [kind |-> "api_error"]
Transport == [kind |-> "transport"]
Ok(b)     == [kind |-> "ok", body |-> b]

\* user objects the API may serve (users.info, and members of users.list)
UserPayloads ==
    { [id |-> S_U1, name |-> S_al, real_name |-> S_Al,
       profile |-> [display_name |-> S_al], is_bot |-> FALSE],
      [id |-> S_U1, name |-> S_al, real_name |-> S_Al, profile |-> [x |-> 0],
       deleted |-> FALSE],
      [id |-> S_U2, deleted |-> TRUE] }

\* channel objects the API may serve (conversations.info, conversations.list)
ChannelPayloads ==
    { [id |-> S_C1, name |-> S_gen, is_private |-> FALSE, is_archived |-> FALSE,
       topic |-> [value |-> "t"], purpose |-> [value |-> "p"], num_members |-> 3],
      [id |-> S_C1, name |-> S_dev, is_private |-> TRUE],
      [id |-> S_G2, name |-> S_gen, is_private |-> TRUE, is_archived |-> TRUE,
       topic |-> [x |-> 0]] }

\* users.info / conversations.info answer about the object that was asked for
UsersInfoResponses(user_id) ==
    { Ok([user |-> p]) : p \in { q \in UserPayloads : q.id = user_id } }
        \cup {ApiError, Transport}

ConversationsInfoResponses(channel_id) ==
    { Ok([channel |-> p]) : p \in { q \in ChannelPayloads : q.id = channel_id } }
        \cup {ApiError, Transport}

Call(method, args, resp) == [method |-> method, args |-> args, resp |-> resp]

Run(uc, cc, ret, exc, calls) ==
    [uc |-> uc, cc |-> cc, ret |-> ret, exc |-> exc, calls |-> calls]

(* ------------------------- domain records ------------------------------ *)
User(id, name, real_name, display_name, is_bot) ==
    [id |-> id, name |-> name, real_name |-> real_name,
     display_name |-> display_name, is_bot |-> is_bot]

Channel(id, name, is_private, is_archived, topic, purpose, member_count) ==
    [id |-> id, name |-> name, is_private |-> is_private,
     is_archived |-> is_archived, topic |-> topic, purpose |-> purpose,
     member_count |-> member_count]

\* User(...) built from a user object (client.py 82-88 and 290-296)
UserOf(user_data) ==
    User(user_data.id,
         Get(user_data, "name", <<>>),
         Get(user_data, "real_name", <<>>),
         Get(Get(user_data, "profile", [x \in {} |-> 0]), "display_name", <<>>),
         Get(user_data, "is_bot", FALSE))

\* Channel(...) built from a channel object; default_name is the default of
\* the name key (client.py 108-116 and 219-227)
ChannelOf(channel_data, default_name) ==
    Channel(channel_data.id,
            Get(channel_data, "name", default_name),
            Get(channel_data, "is_private", FALSE),
            Get(channel_data, "is_archived", FALSE),
            Get(Get(channel_data, "topic", [x \in {} |-> 0]), "value", ""),
            Get(Get(channel_data, "purpose", [x \in {} |-> 0]), "value", ""),
            IF "num_members" \in DOMAIN channel_data
                THEN Some(channel_data.num_members) ELSE None)

\* the placeholder carrying the fallback name of a missing user
UnknownUser_named_Unknown(user_id) ==
    User(user_id, <<"U", "n", "k", "n", "o", "w", "n">>, S_Unknown_User, <<>>, FALSE)

UnknownUser(user_id) == User(user_id, S_unknown, S_Unknown_User, <<>>, FALSE)

FallbackChannel(channel_id) ==
    Channel(channel_id, channel_id, FALSE, FALSE, "", "", None)

(* --------------------------- _get_user --------------------------------- *)
\* get_user_fetch without the store into the cache
get_user_fetch_no_store(uc, cc, user_id, resp) ==
    LET calls == <<Call("users.info", <<user_id>>, resp)>> IN
    CASE resp.kind = "ok" ->
            Run(uc, cc, <<UserOf(resp.body.user)>>, "none", calls)
      [] resp.kind = "api_error" ->
            Run(uc, cc, <<UnknownUser(user_id)>>, "none", calls)
      [] OTHER ->
            Run(uc, cc, <<>>, "Transport", calls)

\* the part of _get_user after a cache miss, given the answer of users.info
get_user_fetch(uc, cc, user_id, resp) ==
    LET calls == <<Call("users.info", <<user_id>>, resp)>> IN
    CASE resp.kind = "ok" ->
            LET user == UserOf(resp.body.user) IN
            Run(Put(uc, user_id, user), cc, <<user>>, "none", calls)
      [] resp.kind = "api_error" ->
            Run(uc, cc, <<UnknownUser(user_id)>>, "none", calls)
      [] OTHER ->
            Run(uc, cc, <<>>, "Transport", calls)

\* _get_user without the cache lookup: every call fetches
get_user_always_fetch(uc, cc, user_id) ==
    { get_user_fetch(uc, cc, user_id, resp) : resp \in UsersInfoResponses(user_id) }

\* _get_user, given the answer users.info gives if it is called
get_user_with(uc, cc, user_id, resp) ==
    IF user_id \in DOMAIN uc
        THEN Run(uc, cc, <<uc[user_id]>>, "none", <<>>)
        ELSE get_user_fetch(uc, cc, user_id, resp)

_get_user(uc, cc, user_id) ==
    { get_user_with(uc, cc, user_id, resp) : resp \in UsersInfoResponses(user_id) }

(* -------------------------- _get_channel ------------------------------- *)
\* get_channel_fetch storing the placeholder of a failed fetch in the cache
get_channel_fetch_cache_placeholder(uc, cc, channel_id, resp) ==
    LET calls == <<Call("conversations.info", <<channel_id>>, resp)>> IN
    CASE resp.kind = "ok" ->
            LET channel == ChannelOf(resp.body.channel, channel_id) IN
            Run(uc, Put(cc, channel_id, channel), <<channel>>, "none", calls)
      [] resp.kind = "api_error" ->
            Run(uc, Put(cc, channel_id, FallbackChannel(channel_id)),
                <<FallbackChannel(channel_id)>>, "none", calls)
      [] OTHER ->
            Run(uc, cc, <<>>, "Transport", calls)

get_channel_fetch(uc, cc, channel_id, resp) ==
    LET calls == <<Call("conversations.info", <<channel_id>>, resp)>> IN
    CASE resp.kind = "ok" ->
            LET channel == ChannelOf(resp.body.channel, channel_id) IN
            Run(uc, Put(cc, channel_id, channel), <<channel>>, "none", calls)
      [] resp.kind = "api_error" ->
            Run(uc, cc, <<FallbackChannel(channel_id)>>, "none", calls)
      [] OTHER ->
            Run(uc, cc, <<>>, "Transport", calls)

\* _get_channel, given the answer conversations.info gives if it is called
get_channel_with(uc, cc, channel_id, resp) ==
    IF channel_id \in DOMAIN cc
        THEN Run(uc, cc, <<cc[channel_id]>>, "none", <<>>)
        ELSE get_channel_fetch(uc, cc, channel_id, resp)

_get_channel(uc, cc, channel_id) ==
    { get_channel_with(uc, cc, channel_id, resp) :
          resp \in ConversationsInfoResponses(channel_id) }

(* ---------------------------- listings ------------------------------- *)
RECURSIVE SeqsUpTo(_, _)
SeqsUpTo(S, n) ==
    IF n = 0 THEN { <<>> }
    ELSE LET shorter == SeqsUpTo(S, n - 1) IN
         shorter \cup { Append(q, x) : q \in { t \in shorter : Len(t) = n - 1 }, x \in S }

\* the continuation cursor the API hands out with page n
CursorOf(n) == IF n % 2 = 1 THEN S_abc ELSE S_dev

\* A listing as the API serves it: the answers to the successive calls.  The
\* API serves at most MaxPages pages and MaxListed records for one listing.
\* A page carries no response_metadata, or an empty next_cursor, or a
\* continuation cursor when a page follows; any call may fail instead.
RECURSIVE Listings(_, _, _, _)
Listings(key, payloads, n, left) ==
    LET items == SeqsUpTo(payloads, left) IN
    { <<ApiError>>, <<Transport>> }
      \cup { <<Ok((key :> i))>> : i \in items }
      \cup { <<Ok((key :> i) @@ [response_metadata |-> [next_cursor |-> <<>>]])>> :
                 i \in items }
      \cup (IF n >= MaxPages THEN {}
            ELSE UNION {
                   { <<Ok((key :> i) @@ [response_metadata |->
                                            [next_cursor |-> CursorOf(n)]])>> \o rest :
                         rest \in Listings(key, payloads, n + 1, left - Len(i)) }
                   : i \in items })

ChannelListings == Listings("channels", ChannelPayloads, 1, MaxListed)
UserListings    == Listings("members", UserPayloads, 1, MaxListed)

\* the answer to the next call of a listing: the API refuses a call that asks
\* beyond the last page it served
Answer(listing) == IF listing = <<>> THEN ApiError ELSE Head(listing)

\* response.get("response_metadata", {}).get("next_cursor")
NextCursor(body) ==
    LET meta == Get(body, "response_metadata", [x \in {} |-> 0]) IN
    IF "next_cursor" \in DOMAIN meta THEN Some(meta.next_cursor) ELSE None

\* `not cursor`: None and the empty string are both falsy
NotCursor(cursor) == cursor = None \/ cursor[1] = <<>>

\* the for loop over one page of conversations.list: the records of the page
RECURSIVE PageChannels(_)
PageChannels(items) ==
    IF items = <<>> THEN <<>>
    ELSE <<ChannelOf(Head(items), <<>>)>> \o PageChannels(Tail(items))

\* the for loop over one page of users.list: deleted members are skipped
RECURSIVE PageUsers(_)
PageUsers(items) ==
    IF items = <<>> THEN <<>>
    ELSE IF Get(Head(items), "deleted", FALSE)
         THEN PageUsers(Tail(items))
         ELSE <<UserOf(Head(items))>> \o PageUsers(Tail(items))

\* the store that keeps an entry the cache already has (dict.setdefault)
RECURSIVE CacheAll_keep_existing(_, _)
CacheAll_keep_existing(cache, records) ==
    IF records = <<>> THEN cache
    ELSE CacheAll_keep_existing(cache @@ (Head(records).id :> Head(records)),
                                Tail(records))

\* cache[r.id] = r for every record of the page, in order
RECURSIVE CacheAll(_, _)
CacheAll(cache, records) ==
    IF records = <<>> THEN cache
    ELSE CacheAll(Put(cache, Head(records).id, Head(records)), Tail(records))

JoinTypes(include_private) ==
    IF include_private THEN "public_channel,private_channel" ELSE "public_channel"

\* list_channels writing the cache once, after the last page
RECURSIVE list_channels_loop_atomic(_, _, _, _, _, _, _, _)
list_channels_loop_atomic(uc, cc, include_private, include_archived, channels, cursor, calls, listing) ==
    LET resp == Answer(listing)
        calls2 == Append(calls,
                Call("conversations.list",
                     <<JoinTypes(include_private), ~include_archived, 200, cursor>>,
                     resp))
    IN
    CASE resp.kind = "api_error" ->
            Run(uc, cc, <<>>, "RuntimeError", calls2)
      [] resp.kind = "transport" ->
            Run(uc, cc, <<>>, "Transport", calls2)
      [] OTHER ->
            LET page == PageChannels(Get(resp.body, "channels", <<>>))
                next == NextCursor(resp.body)
            IN
            IF NotCursor(next)
                THEN Run(uc, CacheAll(cc, channels \o page), <<channels \o page>>,
                         "none", calls2)
                ELSE list_channels_loop_atomic(uc, cc, include_private,
                         include_archived, channels \o page, next, calls2,
                         Tail(listing))

\* one round of the while loop of list_channels, from the call on; listing
\* holds the answers the API gives from here on
RECURSIVE list_channels_loop(_, _, _, _, _, _, _, _)
list_channels_loop(uc, cc, include_private, include_archived, channels, cursor, calls, listing) ==
    LET resp == Answer(listing)
        calls2 == Append(calls,
                Call("conversations.list",
                     <<JoinTypes(include_private), ~include_archived, 200, cursor>>,
                     resp))
    IN
    CASE resp.kind = "api_error" ->
            Run(uc, cc, <<>>, "RuntimeError", calls2)
      [] resp.kind = "transport" ->
            Run(uc, cc, <<>>, "Transport", calls2)
      [] OTHER ->
            LET page == PageChannels(Get(resp.body, "channels", <<>>))
                cc2 == CacheAll(cc, page)
                next == NextCursor(resp.body)
            IN
            IF NotCursor(next)
                THEN Run(uc, cc2, <<channels \o page>>, "none", calls2)
                ELSE list_channels_loop(uc, cc2, include_private, include_archived,
                         channels \o page, next, calls2, Tail(listing))

list_channels(uc, cc, include_private, include_archived) ==
    { list_channels_loop(uc, cc, include_private, include_archived,
                         <<>>, None, <<>>, listing) : listing \in ChannelListings }

RECURSIVE list_users_loop(_, _, _, _, _, _)
list_users_loop(uc, cc, users, cursor, calls, listing) ==
    LET resp == Answer(listing)
        calls2 == Append(calls, Call("users.list", <<200, cursor>>, resp))
    IN
    CASE resp.kind = "api_error" ->
            Run(uc, cc, <<>>, "RuntimeError", calls2)
      [] resp.kind = "transport" ->
            Run(uc, cc, <<>>, "Transport", calls2)
      [] OTHER ->
            LET page == PageUsers(Get(resp.body, "members", <<>>))
                uc2 == CacheAll(uc, page)
                next == NextCursor(resp.body)
            IN
            IF NotCursor(next)
                THEN Run(uc2, cc, <<users \o page>>, "none", calls2)
                ELSE list_users_loop(uc2, cc, users \o page, next, calls2,
                                     Tail(listing))

list_users(uc, cc) ==
    { list_users_loop(uc, cc, <<>>, None, <<>>, listing) : listing \in UserListings }

(* ------------------------- sequencing of calls ------------------------- *)
\* r, then (when r returned) one of the runs of `then`, started from the
\* caches r left; an exception of r leaves the whole operation
AndThen(r, then(_)) ==
    IF r.exc # "none" THEN { r }
    ELSE { [r2 EXCEPT !.calls = r.calls \o r2.calls] : r2 \in then(r) }

Bind(runs, then(_)) == UNION { AndThen(r, then) : r \in runs }

(* ----------------------- identifier resolution ------------------------- *)
\* the scan that returns the last match instead of the first
RECURSIVE ScanChannels_last(_, _)
ScanChannels_last(channels, channel) ==
    IF channels = <<>> THEN channel
    ELSE LET ch == channels[Len(channels)] IN
         IF ch.name = channel \/ ch.name = lstrip(channel, {"#"})
         THEN ch.id
         ELSE ScanChannels_last(SubSeq(channels, 1, Len(channels) - 1), channel)

\* the for loop of _resolve_channel_id over the listing
RECURSIVE ScanChannels(_, _)
ScanChannels(channels, channel) ==
    IF channels = <<>> THEN channel
    ELSE IF Head(channels).name = channel
            \/ Head(channels).name = lstrip(channel, {"#"})
         THEN Head(channels).id
         ELSE ScanChannels(Tail(channels), channel)

\* the prefix test that knows "C" only
IsChannelId_C_only(channel) == startswith(channel, <<"C">>)

IsChannelId(channel) == startswith(channel, <<"C">>) \/ startswith(channel, <<"G">>)

_resolve_channel_id(uc, cc, channel) ==
    IF IsChannelId(channel)
        THEN { Run(uc, cc, <<channel>>, "none", <<>>) }
        ELSE { IF r.exc # "none" THEN r
               ELSE [r EXCEPT !.ret = <<ScanChannels(r.ret[1], channel)>>] :
                   r \in list_channels(uc, cc, TRUE, FALSE) }

\* the for loop of _resolve_user_id over the listing
RECURSIVE ScanUsers(_, _)
ScanUsers(users, user_clean) ==
    IF users = <<>> THEN None
    ELSE IF Head(users).name = user_clean \/ Head(users).display_name = user_clean
         THEN Some(Head(users).id)
         ELSE ScanUsers(Tail(users), user_clean)

IsUserId(user) == startswith(user, <<"U">>)

_resolve_user_id(uc, cc, user) ==
    IF IsUserId(user)
        THEN { Run(uc, cc, <<user>>, "none", <<>>) }
        ELSE { IF r.exc # "none" THEN r
               ELSE LET found == ScanUsers(r.ret[1], lstrip(user, {"@"})) IN
                    [r EXCEPT !.ret = <<IF found = None THEN user ELSE found[1]>>] :
                   r \in list_users(uc, cc) }

(* -------------------- one call after the other ------------------------- *)
\* the elements of a finite set, in some fixed order
RECURSIVE SetToSeq(_)
SetToSeq(S) ==
    IF S = {} THEN <<>>
    ELSE LET x == CHOOSE y \in S : TRUE IN <<x>> \o SetToSeq(S \ {x})

\* the answers open to a step that issues no call
NoAnswer == << [kind |-> "none"] >>

\* every run of runs, continued (when it returned) by step under each of the
\* answers the API may give to the call of the step; an exception ends a run
Then(runs, width, answers(_), step(_, _)) ==
    { IF r.exc # "none" THEN r
      ELSE LET a  == answers(r)
               r2 == step(r, a[IF i <= Len(a) THEN i ELSE 1])
           IN [r2 EXCEPT !.calls = r.calls \o r2.calls]
      : r \in runs, i \in 1..width }

UserWidth    == Cardinality(UserPayloads) + 2
ChannelWidth == Cardinality(ChannelPayloads) + 2

get_user_answers(uc, user_id) ==
    IF user_id \in DOMAIN uc THEN NoAnswer
    ELSE SetToSeq(UsersInfoResponses(user_id))

get_channel_answers(cc, channel_id) ==
    IF channel_id \in DOMAIN cc THEN NoAnswer
    ELSE SetToSeq(ConversationsInfoResponses(channel_id))

(* -------------------------- get_channel_info --------------------------- *)
get_channel_info(uc, cc, channel) ==
    Then(_resolve_channel_id(uc, cc, channel), ChannelWidth,
         LAMBDA r : get_channel_answers(r.cc, r.ret[1]),
         LAMBDA r, resp : get_channel_with(r.uc, r.cc, r.ret[1], resp))

(* ------------------------ messages of the API -------------------------- *)
S_D1 == <<"D", "1">>
S_D2 == <<"D", "2">>
S_q  == <<"q">>
S_in == <<"i", "n", ":", "#">>
S_Unknown == <<"U", "n", "k", "n", "o", "w", "n">>
S_Bot     == <<"B", "o", "t">>
S_DM_with == <<"D", "M", " ", "w", "i", "t", "h", " ">>

Empty == [x \in {} |-> 0]

\* message objects of conversations.history
MessagePayloads ==
    { [text |-> "hi", user |-> S_U1, ts |-> "1.1"],
      [text |-> "yo", ts |-> "2.2"],
      [user |-> S_U2] }

\* matches of search.messages
MatchPayloads ==
    { [text |-> "hi", user |-> S_U1, ts |-> "1.1",
       channel |-> [id |-> S_C1, name |-> S_gen], permalink |-> "p"],
      [text |-> "yo", user |-> <<>>, channel |-> [id |-> S_G2]],
      [user |-> S_U2, ts |-> "3.3"] }

\* im objects of conversations.list(types="im")
ImPayloads ==
    { [id |-> S_D1, user |-> S_U1],
      [id |-> S_D2],
      [id |-> S_D2, user |-> S_U2] }

HistoryAnswers ==
    SetToSeq({ Ok([messages |-> m]) : m \in SeqsUpTo(MessagePayloads, MaxMessages) }
                 \cup {ApiError, Transport})

SearchAnswers ==
    SetToSeq({ Ok([messages |-> [matches |-> m]]) :
                   m \in SeqsUpTo(MatchPayloads, MaxMessages) }
                 \cup {ApiError, Transport})

ImAnswers ==
    SetToSeq({ Ok([channels |-> c]) : c \in SeqsUpTo(ImPayloads, MaxMessages) }
                 \cup {ApiError, Transport})

OpenAnswers ==
    << Ok([channel |-> [id |-> S_D1]]), ApiError, Transport >>

Message(text, user, username, channel, channel_name, timestamp, permalink) ==
    [text |-> text, user |-> user, username |-> username, channel |-> channel,
     channel_name |-> channel_name, timestamp |-> timestamp,
     permalink |-> permalink]

Conversation(id, user_id, user_name, user_display_name) ==
    [id |-> id, user_id |-> user_id, user_name |-> user_name,
     user_display_name |-> user_display_name]

\* user.display_name or user.real_name if user else fallback
\* (a conditional expression binds weaker than `or`)
Username(user, fallback) ==
    IF user = None THEN fallback
    ELSE IF user[1].display_name # <<>> THEN user[1].display_name
         ELSE user[1].real_name

\* the Message(...) of search_messages for one match
SearchMessage(match, user) ==
    LET channel_info == Get(match, "channel", Empty) IN
    Message(Get(match, "text", ""), Get(match, "user", <<>>),
            Username(user, S_Unknown),
            Get(channel_info, "id", <<>>), Get(channel_info, "name", <<>>),
            Get(match, "ts", ""),
            IF "permalink" \in DOMAIN match THEN Some(match.permalink) ELSE None)

\* the Message(...) of get_channel_history for one message
HistoryMessage(ctx, msg, user) ==
    Message(Get(msg, "text", ""), Get(msg, "user", <<>>), Username(user, S_Bot),
            ctx.channel_id, ctx.channel_name, Get(msg, "ts", ""), None)

\* the Message(...) of get_dm_history for one message
DmMessage(ctx, msg, msg_user) ==
    Message(Get(msg, "text", ""), Get(msg, "user", <<>>),
            Username(msg_user, S_Unknown),
            ctx.channel_id,
            S_DM_with \o Username(Some(ctx.target_user), <<>>),
            Get(msg, "ts", ""), None)

\* the Conversation(...) of list_dm_conversations for one im object
ConversationOf(conv, user) ==
    Conversation(conv.id, Get(conv, "user", <<>>),
                 IF user = None THEN S_Unknown ELSE user[1].name,
                 Username(user, S_Unknown))

ItemOf(kind, ctx, item, user) ==
    CASE kind = "search"  -> SearchMessage(item, user)
      [] kind = "history" -> HistoryMessage(ctx, item, user)
      [] kind = "dm"      -> DmMessage(ctx, item, user)
      [] OTHER            -> ConversationOf(item, user)

\* A run inside one of the for loops holds <<built so far, items to go,
\* context>>.  One round: the author lookup (when the item names a user) and
\* the append.
AuthorAnswers(r) ==
    IF r.ret[2] = <<>> \/ Get(Head(r.ret[2]), "user", <<>>) = <<>> THEN NoAnswer
    ELSE get_user_answers(r.uc, Head(r.ret[2]).user)

for_round(kind, r, resp) ==
    LET built == r.ret[1]
        todo  == r.ret[2]
        ctx   == r.ret[3]
    IN
    IF todo = <<>> THEN Run(r.uc, r.cc, r.ret, "none", <<>>)
    ELSE LET item    == Head(todo)
             user_id == Get(item, "user", <<>>)
         IN
         IF user_id = <<>>
         THEN Run(r.uc, r.cc,
                  <<Append(built, ItemOf(kind, ctx, item, None)), Tail(todo), ctx>>,
                  "none", <<>>)
         ELSE LET g == get_user_with(r.uc, r.cc, user_id, resp) IN
              IF g.exc # "none" THEN g
              ELSE Run(g.uc, g.cc,
                       <<Append(built, ItemOf(kind, ctx, item, Some(g.ret[1]))),
                         Tail(todo), ctx>>,
                       "none", g.calls)

\* the for loop, over at most n items
RECURSIVE for_each(_, _, _)
for_each(kind, runs, n) ==
    IF n = 0 THEN runs
    ELSE for_each(kind,
                  Then(runs, UserWidth, AuthorAnswers,
                       LAMBDA r, resp : for_round(kind, r, resp)),
                  n - 1)

\* `return messages`
Returned(runs) ==
    { IF r.exc # "none" THEN r ELSE [r EXCEPT !.ret = <<r.ret[1]>>] : r \in runs }

(* --------------------------- search_messages --------------------------- *)
search_call(r, resp, limit) ==
    LET calls == <<Call("search.messages",
                        <<r.ret[1], limit, "timestamp", "desc">>, resp)>> IN
    CASE resp.kind = "api_error" -> Run(r.uc, r.cc, <<>>, "RuntimeError", calls)
      [] resp.kind = "transport" -> Run(r.uc, r.cc, <<>>, "Transport", calls)
      [] OTHER ->
            Run(r.uc, r.cc,
                << <<>>, Get(Get(resp.body, "messages", Empty), "matches", <<>>),
                   Empty >>,
                "none", calls)

search_messages(uc, cc, query, channel, limit) ==
    LET start ==
            IF channel = None \/ channel[1] = <<>>
            THEN { Run(uc, cc, <<query>>, "none", <<>>) }
            ELSE Then(_resolve_channel_id(uc, cc, channel[1]), ChannelWidth,
                      LAMBDA r : get_channel_answers(r.cc, r.ret[1]),
                      LAMBDA r, resp :
                          LET g == get_channel_with(r.uc, r.cc, r.ret[1], resp) IN
                          IF g.exc # "none" THEN g
                          ELSE [g EXCEPT !.ret =
                                   << S_in \o g.ret[1].name \o <<" ">> \o query >>])
        searched ==
            Then(start, Len(SearchAnswers), LAMBDA r : SearchAnswers,
                 LAMBDA r, resp : search_call(r, resp, limit))
    IN Returned(for_each("search", searched, MaxMessages))

(* ------------------------- get_channel_history ------------------------- *)
history_call(r, resp, limit) ==
    LET calls == <<Call("conversations.history", <<r.ret[1], limit>>, resp)>> IN
    CASE resp.kind = "api_error" -> Run(r.uc, r.cc, <<>>, "RuntimeError", calls)
      [] resp.kind = "transport" -> Run(r.uc, r.cc, <<>>, "Transport", calls)
      [] OTHER ->
            Run(r.uc, r.cc,
                << <<>>, Get(resp.body, "messages", <<>>),
                   [channel_id |-> r.ret[1], channel_name |-> r.ret[2].name] >>,
                "none", calls)

get_channel_history(uc, cc, channel, limit) ==
    LET info ==
            Then(_resolve_channel_id(uc, cc, channel), ChannelWidth,
                 LAMBDA r : get_channel_answers(r.cc, r.ret[1]),
                 LAMBDA r, resp :
                     LET g == get_channel_with(r.uc, r.cc, r.ret[1], resp) IN
                     IF g.exc # "none" THEN g
                     ELSE [g EXCEPT !.ret = <<r.ret[1], g.ret[1]>>])
        history ==
            Then(info, Len(HistoryAnswers), LAMBDA r : HistoryAnswers,
                 LAMBDA r, resp : history_call(r, resp, limit))
    IN Returned(for_each("history", history, MaxMessages))

(* ------------------------ list_dm_conversations ------------------------ *)
im_call(uc, cc, resp) ==
    LET calls == <<Call("conversations.list", <<"im", 200>>, resp)>> IN
    CASE resp.kind = "api_error" -> Run(uc, cc, <<>>, "RuntimeError", calls)
      [] resp.kind = "transport" -> Run(uc, cc, <<>>, "Transport", calls)
      [] OTHER ->
            Run(uc, cc, << <<>>, Get(resp.body, "channels", <<>>), Empty >>,
                "none", calls)

list_dm_conversations(uc, cc) ==
    Returned(for_each("im",
                      { im_call(uc, cc, ImAnswers[i]) : i \in 1..Len(ImAnswers) },
                      MaxMessages))

(* ---------------------------- get_dm_history --------------------------- *)
open_call(r, resp) ==
    LET calls == <<Call("conversations.open", <<r.ret[1]>>, resp)>> IN
    CASE resp.kind = "api_error" -> Run(r.uc, r.cc, <<>>, "RuntimeError", calls)
      [] resp.kind = "transport" -> Run(r.uc, r.cc, <<>>, "Transport", calls)
      [] OTHER ->
            Run(r.uc, r.cc, <<r.ret[1], resp.body.channel.id>>, "none", calls)

dm_history_call(r, resp, limit) ==
    LET calls == <<Call("conversations.history", <<r.ret[2], limit>>, resp)>> IN
    CASE resp.kind = "api_error" -> Run(r.uc, r.cc, <<>>, "RuntimeError", calls)
      [] resp.kind = "transport" -> Run(r.uc, r.cc, <<>>, "Transport", calls)
      [] OTHER ->
            Run(r.uc, r.cc,
                <<r.ret[1], r.ret[2], Get(resp.body, "messages", <<>>)>>,
                "none", calls)

get_dm_history(uc, cc, user, limit) ==
    LET opened ==
            Then(_resolve_user_id(uc, cc, user), Len(OpenAnswers),
                 LAMBDA r : OpenAnswers, open_call)
        history ==
            Then(opened, Len(HistoryAnswers), LAMBDA r : HistoryAnswers,
                 LAMBDA r, resp : dm_history_call(r, resp, limit))
        target ==
            Then(history, UserWidth,
                 LAMBDA r : get_user_answers(r.uc, r.ret[1]),
                 LAMBDA r, resp :
                     LET g == get_user_with(r.uc, r.cc, r.ret[1], resp) IN
                     IF g.exc # "none" THEN g
                     ELSE [g EXCEPT !.ret =
                              << <<>>, r.ret[3],
                                 [channel_id |-> r.ret[2],
                                  target_user |-> g.ret[1]] >>])
    IN Returned(for_each("dm", target, MaxMessages))

(* ----------------------------- send_message ---------------------------- *)
\* SlackClient defines no send_message: the attribute lookup of
\* client.send_message raises AttributeError before any call is issued
send_message(uc, cc, channel, text, thread_ts) ==
    { Run(uc, cc, <<>>, "AttributeError", <<>>) }

(* ----------------------------- state ----------------------------------- *)
UserIds    == {S_U1, S_U2}
ChannelIds == {S_C1, S_G2, S_C9}

\* what a caller may pass where a channel (a user) name or id is expected
ChannelInputs == ChannelIds \cup {S_gen, S_hash_gen, S_hash2_gen}
UserInputs    == UserIds \cup {S_at_al}

\* (include_private, include_archived) as callers pass them
ListFlags == { <<FALSE, FALSE>>, <<TRUE, TRUE>> }

Observe(op, arg, r) ==
    [op |-> op, arg |-> arg, ret |-> r.ret, exc |-> r.exc, calls |-> r.calls]

\* no operation is under observation: the caller holds no result
Idle == [op |-> "idle", arg |-> <<>>, ret |-> <<>>, exc |-> "none", calls |-> <<>>]

\* the successful users.info / conversations.info fetches in a log of calls,
\* each with the record the fetch stored under the id asked for
FetchesIn(calls) ==
    { [kind |-> "user", id |-> calls[i].args[1],
       rec |-> UserOf(calls[i].resp.body.user)] :
          i \in { j \in 1..Len(calls) :
                     calls[j].method = "users.info" /\ calls[j].resp.kind = "ok" } }
    \cup
    { [kind |-> "channel", id |-> calls[i].args[1],
       rec |-> ChannelOf(calls[i].resp.body.channel, calls[i].args[1])] :
          i \in { j \in 1..Len(calls) :
                     calls[j].method = "conversations.info"
                         /\ calls[j].resp.kind = "ok" } }

Init ==
    /\ user_cache = <<>>
    /\ channel_cache = <<>>
    /\ last = Idle
    /\ fetched = None

\* the caller invokes one operation of the client and observes its run
Invoke(op, arg, runs, watch) ==
    /\ last = Idle
    /\ \E r \in runs :
        /\ user_cache' = r.uc
        /\ channel_cache' = r.cc
        /\ last' = Observe(op, arg, r)
        /\ fetched' \in IF watch /\ fetched = None
                          THEN {None} \cup { Some(f) : f \in FetchesIn(r.calls) }
                          ELSE {fetched}

Step(op, arg, runs) == Invoke(op, arg, runs, FALSE)

GetUser ==
    \E user_id \in UserIds :
        Step("_get_user", <<user_id>>, _get_user(user_cache, channel_cache, user_id))

GetChannel ==
    \E channel_id \in ChannelIds :
        Step("_get_channel", <<channel_id>>,
             _get_channel(user_cache, channel_cache, channel_id))

ListChannels ==
    \E flags \in ListFlags :
        Step("list_channels", flags,
             list_channels(user_cache, channel_cache, flags[1], flags[2]))

ListUsers ==
    Step("list_users", <<>>, list_users(user_cache, channel_cache))

ResolveChannelId ==
    \E channel \in ChannelInputs :
        Step("_resolve_channel_id", <<channel>>,
             _resolve_channel_id(user_cache, channel_cache, channel))

ResolveUserId ==
    \E user \in UserInputs :
        Step("_resolve_user_id", <<user>>,
             _resolve_user_id(user_cache, channel_cache, user))

GetChannelInfo ==
    \E channel \in ChannelIds :
        Step("get_channel_info", <<channel>>,
             get_channel_info(user_cache, channel_cache, channel))

\* the caller drops what the operation returned; the client keeps its caches
Discard ==
    /\ last # Idle
    /\ last' = Idle
    /\ UNCHANGED <<user_cache, channel_cache, fetched>>

Next ==
    \/ Discard
    \/ GetUser
    \/ GetChannel
    \/ ListChannels
    \/ ListUsers
    \/ ResolveChannelId
    \/ ResolveUserId
    \/ GetChannelInfo

Spec == Init /\ [][Next]_vars

(* --------- the same client, with an observer remembering a fetch ------- *)
RememberGetUser ==
    \E user_id \in UserIds :
        Invoke("_get_user", <<user_id>>,
               _get_user(user_cache, channel_cache, user_id), TRUE)

RememberGetChannel ==
    \E channel_id \in ChannelIds :
        Invoke("_get_channel", <<channel_id>>,
               _get_channel(user_cache, channel_cache, channel_id), TRUE)

NextFetch ==
    \/ Discard
    \/ RememberGetUser
    \/ RememberGetChannel
    \/ ListChannels
    \/ ListUsers
    \/ ResolveChannelId
    \/ ResolveUserId

SpecFetch == Init /\ [][NextFetch]_vars

(* ----------------------------- parse_slack_url ------------------------- *)
Digits == {"0", "1", "2", "3", "4", "5", "6", "7", "8", "9"}
Upper  == {"A", "B", "C", "D", "E", "F", "G", "H", "I", "J", "K", "L", "M",
           "N", "O", "P", "Q", "R", "S", "T", "U", "V", "W", "X", "Y", "Z"}

S_http     == <<"h", "t", "t", "p">>
S_sep      == <<":", "/", "/">>
S_host     == <<"x", ".", "s">>
S_archives == <<"/", "a", "r", "c", "h", "i", "v", "e", "s", "/">>
S_p        == <<"/", "p">>
S_ts16     == <<"1", "7", "6", "9", "5", "7", "1", "0", "1", "7",
                "9", "5", "4", "7", "8", "9">>

Drop(s, n) == SubSeq(s, n + 1, Len(s))
Take(s, n) == SubSeq(s, 1, IF n < Len(s) THEN n ELSE Len(s))

\* the longest prefix of s made of characters in (outside, when ~inside) set
RECURSIVE Span(_, _, _)
Span(s, set, inside) ==
    IF s # <<>> /\ ((s[1] \in set) = inside)
        THEN <<s[1]>> \o Span(Tail(s), set, inside)
        ELSE <<>>

\* the pattern matched against the whole url (re.fullmatch)
parse_slack_url_fullmatch(url) ==
    IF ~startswith(url, S_http) THEN None ELSE
    LET a == Drop(url, Len(S_http))
        b == IF startswith(a, <<"s">>) THEN Tail(a) ELSE a
    IN
    IF ~startswith(b, S_sep) THEN None ELSE
    LET c    == Drop(b, Len(S_sep))
        host == Span(c, {"/"}, FALSE)
        d    == Drop(c, Len(host))
    IN
    IF host = <<>> \/ ~startswith(d, S_archives) THEN None ELSE
    LET e          == Drop(d, Len(S_archives))
        channel_id == Span(e, Upper \cup Digits, TRUE)
        f          == Drop(e, Len(channel_id))
    IN
    IF channel_id = <<>> \/ ~startswith(f, S_p) THEN None ELSE
    LET ts_raw == Span(Drop(f, Len(S_p)), Digits, TRUE) IN
    IF ts_raw = <<>> \/ Drop(f, Len(S_p) + Len(ts_raw)) # <<>> THEN None
    ELSE Some(<<channel_id, Take(ts_raw, 10) \o <<".">> \o Drop(ts_raw, 10)>>)

\* re.match(r"https?://[^/]+/archives/([A-Z0-9]+)/p(\d+)", url): the pattern
\* is matched at the start of url, what follows the digits is not looked at
parse_slack_url(url) ==
    IF ~startswith(url, S_http) THEN None ELSE
    LET a == Drop(url, Len(S_http))
        b == IF startswith(a, <<"s">>) THEN Tail(a) ELSE a
    IN
    IF ~startswith(b, S_sep) THEN None ELSE
    LET c    == Drop(b, Len(S_sep))
        host == Span(c, {"/"}, FALSE)
        d    == Drop(c, Len(host))
    IN
    IF host = <<>> \/ ~startswith(d, S_archives) THEN None ELSE
    LET e          == Drop(d, Len(S_archives))
        channel_id == Span(e, Upper \cup Digits, TRUE)
        f          == Drop(e, Len(channel_id))
    IN
    IF channel_id = <<>> \/ ~startswith(f, S_p) THEN None ELSE
    LET ts_raw == Span(Drop(f, Len(S_p)), Digits, TRUE) IN
    IF ts_raw = <<>> THEN None
    ELSE Some(<<channel_id, Take(ts_raw, 10) \o <<".">> \o Drop(ts_raw, 10)>>)

(* ------------------------------ commands ------------------------------- *)
\* SlackClient(): the token is read from SLACK_CLI_TOKEN; a client starts
\* with empty caches
SlackClient(token) ==
    IF token = None \/ token[1] = ""
        THEN Run(<<>>, <<>>, <<>>, "ValueError", <<>>)
        ELSE Run(<<>>, <<>>, <<>>, "none", <<>>)

\* what a process did: its exit status, the lines print_error wrote, and what
\* it handed to the presentation layer
Outcome(exit, errors, out) == [exit |-> exit, errors |-> errors, out |-> out]

Printed(printer, data) == << [printer |-> printer, data |-> data] >>

\* the try/except of a command around the run r of its body: ValueError and
\* RuntimeError are printed and become typer.Exit(1); any other exception
\* leaves the command and ends the interpreter with a traceback and status 1
Handled(r, out(_)) ==
    CASE r.exc = "none" ->
            Run(r.uc, r.cc, <<Outcome(0, 0, out(r))>>, "none", r.calls)
      [] r.exc \in {"ValueError", "RuntimeError"} ->
            Run(r.uc, r.cc, <<Outcome(1, 1, <<>>)>>, "none", r.calls)
      [] OTHER ->
            Run(r.uc, r.cc, <<Outcome(1, 0, <<>>)>>, r.exc, r.calls)

\* the body of a command: the client is constructed, then body runs on it
Command(token, body, out(_)) ==
    IF SlackClient(token).exc # "none"
        THEN { Handled(SlackClient(token), out) }
        ELSE { Handled(r, out) : r \in body }

RECURSIVE SelectPrivate(_, _)
SelectPrivate(channels, private) ==
    IF channels = <<>> THEN <<>>
    ELSE IF Head(channels).is_private = private
         THEN <<Head(channels)>> \o SelectPrivate(Tail(channels), private)
         ELSE SelectPrivate(Tail(channels), private)

\* the --private flag taken as the selector on is_private
channel_type_filter_on_flag(channels, include_private, channel_type) ==
    IF channel_type = Some("private") \/ include_private
        THEN SelectPrivate(channels, TRUE)
    ELSE IF channel_type = Some("public") THEN SelectPrivate(channels, FALSE)
    ELSE channels

\* the two list comprehensions of `channel list` (--type private / public)
channel_type_filter(channels, include_private, channel_type) ==
    IF channel_type = Some("private") THEN SelectPrivate(channels, TRUE)
    ELSE IF channel_type = Some("public") THEN SelectPrivate(channels, FALSE)
    ELSE channels

search(token, query, channel, limit) ==
    Command(token, search_messages(<<>>, <<>>, query, channel, limit),
            LAMBDA r : Printed("print_search_results", <<r.ret[1], query>>))

channel_list(token, include_private, include_archived, channel_type) ==
    Command(token,
            list_channels(<<>>, <<>>,
                          include_private \/ channel_type = Some("private"),
                          include_archived),
            LAMBDA r : Printed("print_channels",
                               <<channel_type_filter(r.ret[1], include_private,
                                                     channel_type)>>))

channel_history(token, channel, limit) ==
    Command(token,
            Bind(get_channel_history(<<>>, <<>>, channel, limit),
                 LAMBDA r : { IF g.exc # "none" THEN g
                              ELSE [g EXCEPT !.ret = <<r.ret[1], g.ret[1]>>] :
                                  g \in get_channel_info(r.uc, r.cc, channel) }),
            LAMBDA r : Printed("print_messages", <<r.ret[1], r.ret[2].name>>))

channel_info(token, channel) ==
    Command(token, get_channel_info(<<>>, <<>>, channel),
            LAMBDA r : Printed("print_channel_info", <<r.ret[1]>>))

list_dms(token) ==
    Command(token, list_dm_conversations(<<>>, <<>>),
            LAMBDA r : Printed("print_conversations", <<r.ret[1]>>))

\* str.replace(old, new)
RECURSIVE replace(_, _, _)
replace(s, old, new) ==
    IF s = <<>> THEN <<>>
    ELSE IF startswith(s, old) THEN new \o replace(Drop(s, Len(old)), old, new)
    ELSE <<s[1]>> \o replace(Tail(s), old, new)

dm_history(token, user, limit) ==
    Command(token, get_dm_history(<<>>, <<>>, user, limit),
            LAMBDA r :
                Printed("print_dm_history",
                        <<r.ret[1],
                          IF r.ret[1] # <<>>
                              THEN replace(r.ret[1][1].channel_name, S_DM_with, <<>>)
                              ELSE user>>))

\* the body of send and of reply after the client is constructed
send_body(channel, message, thread_ts) ==
    Bind(send_message(<<>>, <<>>, channel, message, thread_ts),
         LAMBDA r : { IF g.exc # "none" THEN g
                      ELSE [g EXCEPT !.ret = <<g.ret[1], r.ret[2]>>] :
                          g \in get_channel_info(r.uc, r.cc, r.ret[1]) })

send(token, channel, message, thread) ==
    Command(token, send_body(channel, message, thread),
            LAMBDA r : Printed("print_sent_message",
                               <<r.ret[1].name, r.ret[2], thread>>))

reply(token, url, message) ==
    IF parse_slack_url(url) = None
        THEN { Run(<<>>, <<>>, <<Outcome(1, 1, <<>>)>>, "none", <<>>) }
        ELSE Command(token,
                     send_body(parse_slack_url(url)[1][1], message,
                               Some(parse_slack_url(url)[1][2])),
                     LAMBDA r : Printed("print_sent_message",
                                        <<r.ret[1].name, r.ret[2],
                                          Some(parse_slack_url(url)[1][2])>>))

(* ------------------ the command line: one process per command ---------- *)
Tokens == { None, Some(""), Some("xoxp") }

\* (--private, --archived, --type) of `channel list`
ChannelListArgs ==
    { <<FALSE, FALSE, None>>, <<TRUE, FALSE, None>>,
      <<FALSE, TRUE, Some("private")>>, <<FALSE, FALSE, Some("public")>> }

\* urls handed to reply: every way of putting a scheme, a host, a path, a
\* channel segment, a message segment and a tail together
Urls ==
    { scheme \o S_sep \o host \o path \o channel \o mark \o digits \o tail :
          scheme  \in { S_http, S_http \o <<"s">>, <<"f", "t", "p">> },
          host    \in { S_host, <<>> },
          path    \in { S_archives, <<"/", "a", "/">> },
          channel \in { S_C1, S_gen, <<>> },
          mark    \in { S_p, <<"/">> },
          digits  \in { S_ts16, Take(S_ts16, 11), Take(S_ts16, 4), <<>> },
          tail    \in { <<>>, <<"?", "x">> } }

\* the process ran the command op with the arguments arg as r records
Ran(op, arg, r) ==
    /\ user_cache' = r.uc
    /\ channel_cache' = r.cc
    /\ last' = Observe(op, arg, r)
    /\ UNCHANGED fetched

CmdSearch ==
    /\ last = Idle
    /\ \E token \in Tokens :
         \E channel \in {None, Some(<<>>), Some(S_C1), Some(S_hash_gen)} :
           \E r \in search(token, S_q, channel, 20) :
             Ran("search", <<token, S_q, channel>>, r)

CmdChannelList ==
    /\ last = Idle
    /\ \E token \in Tokens :
         \E a \in ChannelListArgs :
           \E r \in channel_list(token, a[1], a[2], a[3]) :
             Ran("channel list", <<token, a[1], a[2], a[3]>>, r)

CmdChannelHistory ==
    /\ last = Idle
    /\ \E token \in Tokens :
         \E channel \in ChannelIds :
           \E r \in channel_history(token, channel, 50) :
             Ran("channel history", <<token, channel>>, r)

CmdChannelInfo ==
    /\ last = Idle
    /\ \E token \in Tokens :
         \E channel \in ChannelInputs :
           \E r \in channel_info(token, channel) :
             Ran("channel info", <<token, channel>>, r)

CmdDmList ==
    /\ last = Idle
    /\ \E token \in Tokens :
         \E r \in list_dms(token) : Ran("dm list", <<token>>, r)

CmdDmHistory ==
    /\ last = Idle
    /\ \E token \in Tokens :
         \E user \in UserInputs :
           \E r \in dm_history(token, user, 50) :
             Ran("dm history", <<token, user>>, r)

CmdSend ==
    /\ last = Idle
    /\ \E token \in Tokens :
         \E channel \in {S_C1, S_hash_gen} :
           \E thread \in {None, Some("1.1")} :
             \E r \in send(token, channel, "hi", thread) :
               Ran("send", <<token, channel, "hi", thread>>, r)

CmdReply ==
    /\ last = Idle
    /\ \E token \in Tokens :
         \E url \in Urls :
           \E r \in reply(token, url, "hi") :
             Ran("reply", <<token, url, "hi">>, r)

\* the process ends; the next command starts a new one
Exit ==
    /\ last # Idle
    /\ last' = Idle
    /\ user_cache' = <<>>
    /\ channel_cache' = <<>>
    /\ UNCHANGED fetched

NextCmd ==
    \/ Exit
    \/ CmdSearch
    \/ CmdChannelList
    \/ CmdChannelHistory
    \/ CmdChannelInfo
    \/ CmdDmList
    \/ CmdDmHistory
    \/ CmdSend
    \/ CmdReply

SpecCmd == Init /\ [][NextCmd]_vars

(* ------------------------------ claims --------------------------------- *)
Remembered(kind, id) ==
    fetched # None /\ fetched[1].kind = kind /\ fetched[1].id = id

C2_FailedFetchNotCached ==
    [][ /\ (/\ last'.op = "_get_user"
            /\ last'.calls # <<>>
            /\ last'.calls[1].resp.kind = "api_error")
            => /\ last'.exc = "none"
               /\ last'.ret = << [id |-> last'.arg[1], name |-> S_unknown,
                                  real_name |-> S_Unknown_User,
                                  display_name |-> <<>>, is_bot |-> FALSE] >>
               /\ UNCHANGED <<user_cache, channel_cache>>
               /\ \A r \in _get_user(user_cache', channel_cache', last'.arg[1]) :
                      /\ Len(r.calls) = 1
                      /\ r.calls[1].method = "users.info"
                      /\ r.calls[1].args = last'.arg
        /\ (/\ last'.op = "_get_channel"
            /\ last'.calls # <<>>
            /\ last'.calls[1].resp.kind = "api_error")
            => /\ last'.exc = "none"
               /\ last'.ret = << [id |-> last'.arg[1], name |-> last'.arg[1],
                                  is_private |-> FALSE, is_archived |-> FALSE,
                                  topic |-> "", purpose |-> "",
                                  member_count |-> None] >>
               /\ UNCHANGED <<user_cache, channel_cache>>
               /\ \A r \in _get_channel(user_cache', channel_cache', last'.arg[1]) :
                      /\ Len(r.calls) = 1
                      /\ r.calls[1].method = "conversations.info"
                      /\ r.calls[1].args = last'.arg ]_vars

\* a _get_channel call whose fetch failed with an API error, made while the
\* channel cache already holds other entries
C2_Witness ==
    /\ last.op = "_get_channel"
    /\ last.calls # <<>>
    /\ last.calls[1].resp.kind = "api_error"
    /\ DOMAIN channel_cache # {}

\* C3 as stated: a cache entry that is present is never removed and never
\* replaced by a different record.
C3_Original ==
    [][ /\ \A id \in DOMAIN user_cache :
               id \in DOMAIN user_cache' /\ user_cache'[id] = user_cache[id]
        /\ \A id \in DOMAIN channel_cache :
               id \in DOMAIN channel_cache' /\ channel_cache'[id] = channel_cache[id]
      ]_vars

\* the objects with this id that a successful page of the listing carried
ListedIn(calls, method, key, id) ==
    LET pages == { calls[i].resp.body[key] :
                     i \in { k \in 1..Len(calls) :
                                calls[k].method = method /\ calls[k].resp.kind = "ok" } }
    IN { o \in UNION { { page[j] : j \in 1..Len(page) } : page \in pages } : o.id = id }

\* C3 amended: a cache entry that is present is never removed; it is replaced
\* only by an operation that ran list_users (list_channels) and received a
\* page carrying that id, and then by the record made from such a listed
\* object; _get_user and _get_channel never replace an entry.
C3_ReplacedOnlyByListing ==
    [][ /\ \A id \in DOMAIN user_cache :
               /\ id \in DOMAIN user_cache'
               /\ user_cache'[id] # user_cache[id]
                    => /\ last'.op \notin {"_get_user", "_get_channel"}
                       /\ \E o \in ListedIn(last'.calls, "users.list", "members", id) :
                              ~Get(o, "deleted", FALSE) /\ user_cache'[id] = UserOf(o)
        /\ \A id \in DOMAIN channel_cache :
               /\ id \in DOMAIN channel_cache'
               /\ channel_cache'[id] # channel_cache[id]
                    => /\ last'.op \notin {"_get_user", "_get_channel"}
                       /\ \E o \in ListedIn(last'.calls, "conversations.list",
                                              "channels", id) :
                              channel_cache'[id] = ChannelOf(o, <<>>)
      ]_vars

\* a listing whose two pages carried one id with different data: the entry
\* stored from the first page has been replaced by the record of the second
C3_Witness ==
    /\ last.op = "list_channels"
    /\ last.exc = "none"
    /\ Len(last.calls) = 2
    /\ Len(last.ret[1]) = 2
    /\ last.ret[1][1].id = last.ret[1][2].id
    /\ last.ret[1][1] # last.ret[1][2]
    /\ channel_cache[last.ret[1][1].id] = last.ret[1][2]

\* C4: for an input beginning with "C" or "G", _resolve_channel_id returns
\* the input unchanged, issues no network call and changes no cache; for an
\* input beginning with "U", _resolve_user_id does the same.
C4_IdPrefixPassThrough ==
    [][ /\ (/\ last'.op = "_resolve_channel_id"
            /\ last'.arg[1] # <<>>
            /\ last'.arg[1][1] \in {"C", "G"})
            => /\ last'.ret = last'.arg
               /\ last'.exc = "none"
               /\ last'.calls = <<>>
               /\ UNCHANGED <<user_cache, channel_cache>>
        /\ (/\ last'.op = "_resolve_user_id"
            /\ last'.arg[1] # <<>>
            /\ last'.arg[1][1] = "U")
            => /\ last'.ret = last'.arg
               /\ last'.exc = "none"
               /\ last'.calls = <<>>
               /\ UNCHANGED <<user_cache, channel_cache>> ]_vars

\* _resolve_channel_id was given a "G" id that no cache entry knows
C4_Witness ==
    /\ last.op = "_resolve_channel_id"
    /\ last.arg[1][1] = "G"
    /\ last.arg[1] \notin DOMAIN channel_cache
    /\ last.ret = last.arg

\* the channel objects of the pages of a listing, in page order
RECURSIVE ListedObjects(_, _)
ListedObjects(calls, key) ==
    IF calls = <<>> THEN <<>>
    ELSE calls[1].resp.body[key] \o ListedObjects(Tail(calls), key)

\* the id of the first object whose name is one of names, else otherwise
FirstNamed(objects, names, otherwise) ==
    LET hits == { i \in 1..Len(objects) : Get(objects[i], "name", <<>>) \in names } IN
    IF hits = {} THEN otherwise
    ELSE objects[CHOOSE i \in hits : \A j \in hits : i <= j].id

\* the input without a leading '#'
WithoutOneHash(t) == IF t # <<>> /\ t[1] = "#" THEN Tail(t) ELSE t

\* the input without any of its leading '#'
WithoutHashes(t) ==
    LET n == Cardinality({ i \in 1..Len(t) : \A j \in 1..i : t[j] = "#" }) IN
    SubSeq(t, n + 1, Len(t))

ResolvedByName ==
    /\ last.op = "_resolve_channel_id"
    /\ ~(last.arg[1] # <<>> /\ last.arg[1][1] \in {"C", "G"})
    /\ last.exc = "none"

FullListingFetched ==
    /\ last.calls # <<>>
    /\ \A i \in 1..Len(last.calls) :
          /\ last.calls[i].method = "conversations.list"
          /\ last.calls[i].args[1] = "public_channel,private_channel"
          /\ last.calls[i].args[2] = TRUE

\* C5 as stated: for an input not beginning with "C" or "G",
\* _resolve_channel_id fetches the listing (private included, archived
\* excluded) and returns the id of the first listed channel whose name is the
\* input or the input without a leading '#', else the input itself.
C5_Original ==
    ResolvedByName =>
        /\ FullListingFetched
        /\ last.ret = << FirstNamed(ListedObjects(last.calls, "channels"),
                                    {last.arg[1], WithoutOneHash(last.arg[1])},
                                    last.arg[1]) >>

\* C5 amended: ... returns the id of the first listed channel whose name is
\* the input or the input without all of its leading '#' characters, else
\* the input itself.
C5_FirstMatchAllHashesStripped ==
    ResolvedByName =>
        /\ FullListingFetched
        /\ last.ret = << FirstNamed(ListedObjects(last.calls, "channels"),
                                    {last.arg[1], WithoutHashes(last.arg[1])},
                                    last.arg[1]) >>

\* a name with two leading '#' resolved to the second of two listed channels
C5_Witness ==
    /\ ResolvedByName
    /\ last.arg[1] = S_hash2_gen
    /\ Len(ListedObjects(last.calls, "channels")) = 2
    /\ last.ret = << ListedObjects(last.calls, "channels")[2].id >>

\* next_cursor of page i of the log, None when the page carries none
CursorOfPage(calls, i) ==
    LET body == calls[i].resp.body IN
    IF "response_metadata" \in DOMAIN body
           /\ "next_cursor" \in DOMAIN body.response_metadata
        THEN Some(body.response_metadata.next_cursor)
        ELSE None

HasMore(calls, i) == CursorOfPage(calls, i) \notin {None, Some(<<>>)}

\* one call per page, each after the first passing the cursor of the page
\* before, the last page being the first without a continuation cursor
FollowsCursors(calls, method, cursor_arg) ==
    /\ calls # <<>>
    /\ \A i \in 1..Len(calls) :
          /\ calls[i].method = method
          /\ calls[i].resp.kind = "ok"
          /\ calls[i].args[cursor_arg - 1] = 200
          /\ calls[i].args[cursor_arg] =
                 (IF i = 1 THEN None ELSE CursorOfPage(calls, i - 1))
          /\ HasMore(calls, i) <=> i < Len(calls)

\* the records of the members that are not flagged deleted, in order
Undeleted(objects) ==
    LET kept == { i \in 1..Len(objects) : ~Get(objects[i], "deleted", FALSE) }
        nth(k) == CHOOSE i \in kept : Cardinality({ j \in kept : j <= i }) = k
    IN [k \in 1..Cardinality(kept) |-> UserOf(objects[nth(k)])]

ListedAll ==
    /\ last.op \in {"list_channels", "list_users"}
    /\ last.exc = "none"

PagesConcatenated ==
    IF last.op = "list_channels"
    THEN /\ FollowsCursors(last.calls, "conversations.list", 4)
         /\ \A i \in 1..Len(last.calls) :
               /\ last.calls[i].args[1] =
                     (IF last.arg[1] THEN "public_channel,private_channel"
                                     ELSE "public_channel")
               /\ last.calls[i].args[2] = ~last.arg[2]
         /\ LET objects == ListedObjects(last.calls, "channels") IN
            last.ret[1] = [k \in 1..Len(objects) |-> ChannelOf(objects[k], <<>>)]
    ELSE /\ FollowsCursors(last.calls, "users.list", 2)
         /\ last.ret[1] = Undeleted(ListedObjects(last.calls, "members"))

CacheOf(op) == IF op = "list_channels" THEN channel_cache ELSE user_cache

\* C6 as stated: list_channels and list_users issue one call per page,
\* following the cursors up to the first page without one, return the
\* concatenation of the pages (list_users without the deleted members), and
\* every returned record is in the cache afterwards.
C6_Original ==
    ListedAll =>
        /\ PagesConcatenated
        /\ \A k \in 1..Len(last.ret[1]) :
              /\ last.ret[1][k].id \in DOMAIN CacheOf(last.op)
              /\ CacheOf(last.op)[last.ret[1][k].id] = last.ret[1][k]

\* C6 amended: ... and afterwards the cache holds, under the id of every
\* returned record, the last returned record that has this id (so every
\* returned record is in the cache when no two of them share an id).
C6_PagesConcatenatedAndCached ==
    ListedAll =>
        /\ PagesConcatenated
        /\ \A k \in 1..Len(last.ret[1]) :
              /\ last.ret[1][k].id \in DOMAIN CacheOf(last.op)
              /\ \E m \in k..Len(last.ret[1]) :
                    /\ last.ret[1][m].id = last.ret[1][k].id
                    /\ \A n \in (m + 1)..Len(last.ret[1]) :
                          last.ret[1][n].id # last.ret[1][k].id
                    /\ CacheOf(last.op)[last.ret[1][k].id] = last.ret[1][m]

\* list_users over two pages, the first carrying a deleted member, the
\* second a member that is returned and cached
C6_Witness ==
    /\ last.op = "list_users"
    /\ last.exc = "none"
    /\ Len(last.calls) = 2
    /\ Len(ListedObjects(last.calls, "members")) = 2
    /\ Get(ListedObjects(last.calls, "members")[1], "deleted", FALSE)
    /\ Len(last.ret[1]) = 1
    /\ user_cache[last.ret[1][1].id] = last.ret[1][1]

(* ------------------------ claims on the commands ----------------------- *)
Commands ==
    { "search", "channel list", "channel history", "channel info",
      "dm list", "dm history", "send", "reply" }

\* the process was given a usable token
TokenGiven == last.arg[1] # None /\ last.arg[1][1] # ""

\* the positions in the log of the calls of method
CallsOf(method) == { i \in 1..Len(last.calls) : last.calls[i].method = method }

\* send, or reply with a url that names a message, ran with a token; the
\* target is a channel id, so nothing has to be resolved
Posting ==
    /\ last.op \in {"send", "reply"}
    /\ TokenGiven
    /\ IF last.op = "send"
           THEN startswith(last.arg[2], <<"C">>)
           ELSE parse_slack_url(last.arg[2]) # None

\* C7: send (and reply) posts exactly one message through the client, as a
\* threaded reply when a thread timestamp is given, and when the API accepts
\* the post the command hands the confirmation to the presentation layer and
\* exits 0.
C7_PostsOnceAndConfirms ==
    Posting =>
        /\ Cardinality(CallsOf("chat.postMessage")) = 1
        /\ \A i \in CallsOf("chat.postMessage") :
              last.calls[i].resp.kind = "ok" =>
                  /\ last.exc = "none"
                  /\ last.ret[1].exit = 0
                  /\ last.ret[1].out # <<>>
                  /\ last.ret[1].out[1].printer = "print_sent_message"

\* a call the client does not absorb: a transport fault, or a non-success
\* answer to anything but the two detail lookups
FailedCall(c) ==
    \/ c.resp.kind = "transport"
    \/ c.resp.kind = "api_error" /\ c.method \notin {"users.info", "conversations.info"}

CommandFailed ==
    \/ ~TokenGiven
    \/ \E i \in 1..Len(last.calls) : FailedCall(last.calls[i])

\* a command ran to its end (a reply whose url names no message aside)
CommandRan ==
    /\ last.op \in Commands
    /\ last.op = "reply" => parse_slack_url(last.arg[2]) # None

\* C8: a command whose credential loading or client call fails (non-success
\* answer or transport fault) prints one error line and exits 1, no failure
\* leaves the command as an uncaught exception, and a command whose calls
\* all succeed exits 0.
C8_FailurePrintsOneLineExit1 ==
    CommandRan =>
        /\ last.exc = "none"
        /\ CommandFailed => last.ret[1].exit = 1 /\ last.ret[1].errors = 1
        /\ ~CommandFailed => last.ret[1].exit = 0

\* `channel list` ended with status 0: what it handed to print_channels, and
\* what the client had returned (the records of every page, in order)
ChannelListDone ==
    /\ last.op = "channel list"
    /\ last.exc = "none"
    /\ last.ret[1].exit = 0

PrintedChannels == last.ret[1].out[1].data[1]

ClientChannels ==
    LET objects == ListedObjects(last.calls, "channels") IN
    [i \in 1..Len(objects) |-> ChannelOf(objects[i], <<>>)]

IsPrivate(ch) == ch.is_private
IsPublic(ch)  == ~ch.is_private

\* C9 as stated: `channel list --private` hands only private channels to the
\* presentation layer.
C9_Original ==
    (ChannelListDone /\ last.arg[2]) =>
        \A i \in 1..Len(PrintedChannels) : PrintedChannels[i].is_private

\* C9 amended: the filter on is_private belongs to --type: with --type
\* private the command hands on exactly the private channels of the
\* client's result (with --type public the others), in order; without
\* --type, --private or not, it hands the client's result on unfiltered.
\* --private and --type private both make the client request private
\* channels from the API as well.
C9_TypePrivateFilters ==
    ChannelListDone =>
        /\ PrintedChannels =
              (IF last.arg[4] = Some("private")
                   THEN SelectSeq(ClientChannels, IsPrivate)
               ELSE IF last.arg[4] = Some("public")
                   THEN SelectSeq(ClientChannels, IsPublic)
               ELSE ClientChannels)
        /\ \A i \in CallsOf("conversations.list") :
              last.calls[i].args[1] =
                  (IF last.arg[2] \/ last.arg[4] = Some("private")
                       THEN "public_channel,private_channel"
                       ELSE "public_channel")

\* --type private over a listing of a public and a private channel: one
\* channel, the private one, is handed on
C9_Witness ==
    /\ ChannelListDone
    /\ last.arg[4] = Some("private")
    /\ \E i, j \in 1..Len(ClientChannels) :
          ClientChannels[i].is_private /\ ~ClientChannels[j].is_private
    /\ Len(PrintedChannels) = 1
    /\ PrintedChannels[1].is_private

\* C10: when `channel info` runs with a token and the conversations.info
\* call for its channel fails, the command ends as a request failure (one
\* error line, exit 1) and hands no channel to the presentation layer.
C10_PrimaryLookupFailureIsError ==
    ( /\ last.op = "channel info"
      /\ TokenGiven
      /\ \E i \in CallsOf("conversations.info") :
            last.calls[i].resp.kind = "api_error" )
    => /\ last.ret[1].exit = 1
       /\ last.ret[1].errors = 1
       /\ last.ret[1].out = <<>>

\* a command that prints messages ended with status 0
MessagesPrinted ==
    /\ last.op \in {"search", "channel history", "dm history"}
    /\ last.exc = "none"
    /\ last.ret[1].exit = 0

PrintedMessages == last.ret[1].out[1].data[1]

\* the author record behind a printed message: the cached record of the
\* message's user id, the placeholder when the lookup of that id failed, None
\* when the message carries no user id
AuthorOf(m) ==
    IF m.user = <<>> THEN None
    ELSE IF m.user \in DOMAIN user_cache THEN Some(user_cache[m.user])
    ELSE Some(UnknownUser(m.user))

\* C11: the username of every message of search_messages, get_dm_history and
\* get_channel_history is the author's display_name when that is non-empty,
\* else the author's real_name when that is non-empty, else "Unknown" ("Bot"
\* for get_channel_history); so it is never the empty string.
C11_UsernamePrecedence ==
    MessagesPrinted =>
        \A i \in 1..Len(PrintedMessages) :
            LET m        == PrintedMessages[i]
                author   == AuthorOf(m)
                fallback == IF last.op = "channel history" THEN S_Bot ELSE S_Unknown
            IN
            /\ m.username # <<>>
            /\ m.username =
                  (IF author # None /\ author[1].display_name # <<>>
                       THEN author[1].display_name
                   ELSE IF author # None /\ author[1].real_name # <<>>
                       THEN author[1].real_name
                   ELSE fallback)

\* `dm list` ended with status 0: the conversations it printed, and the im
\* objects conversations.list had returned
DmListDone ==
    /\ last.op = "dm list"
    /\ last.exc = "none"
    /\ last.ret[1].exit = 0

PrintedConversations == last.ret[1].out[1].data[1]

ListedIms == last.calls[1].resp.body.channels

\* the users.info calls for user_id in the log that were answered with kind
InfoCalls(user_id, kind) ==
    { i \in CallsOf("users.info") :
          last.calls[i].args[1] = user_id /\ last.calls[i].resp.kind = kind }

\* the lookup of the counterpart of im failed entirely: users.info was asked
\* about that user and never answered with a user object
LookupFailed(im) ==
    /\ Get(im, "user", <<>>) # <<>>
    /\ InfoCalls(im.user, "api_error") # {}
    /\ InfoCalls(im.user, "ok") = {}

\* C12 as stated: a DM whose counterpart lookup fails entirely is returned
\* with user_name "Unknown".
C12_Original ==
    DmListDone =>
        /\ Len(PrintedConversations) = Len(ListedIms)
        /\ \A i \in 1..Len(ListedIms) :
              LookupFailed(ListedIms[i]) => PrintedConversations[i].user_name = S_Unknown

\* C12 amended: a DM whose counterpart lookup fails entirely is still
\* returned, with the names of the placeholder user: user_name "unknown" and
\* user_display_name "Unknown User".  "Unknown" is the user_name (and the
\* user_display_name) of a DM that carries no user id, for which no lookup is
\* made.
C12_FailedLookupNamedUnknownUser ==
    DmListDone =>
        /\ Len(PrintedConversations) = Len(ListedIms)
        /\ \A i \in 1..Len(ListedIms) :
              LET im == ListedIms[i]
                  c  == PrintedConversations[i]
              IN
              /\ c.id = im.id
              /\ c.user_id = Get(im, "user", <<>>)
              /\ LookupFailed(im) =>
                    /\ c.user_name = S_unknown
                    /\ c.user_display_name = S_Unknown_User
              /\ Get(im, "user", <<>>) = <<>> =>
                    /\ c.user_name = S_Unknown
                    /\ c.user_display_name = S_Unknown

\* `dm list` returned a DM whose counterpart lookup had failed
C12_Witness ==
    /\ DmListDone
    /\ \E i \in 1..Len(ListedIms) :
          /\ LookupFailed(ListedIms[i])
          /\ PrintedConversations[i].user_name = S_unknown


\* url[from .. from + Len(part) - 1] is part
HasAt(url, from, part) ==
    /\ from + Len(part) - 1 <= Len(url)
    /\ SubSeq(url, from, from + Len(part) - 1) = part

\* the characters url[from .. to] all lie in set (outside it, when ~inside)
AllIn(url, from, to, set, inside) ==
    /\ to <= Len(url)
    /\ \A k \in from..to : (url[k] \in set) = inside

\* url begins with a scheme of s characters (http or https) and ://
SchemeAt(url, s) ==
    /\ HasAt(url, 1, IF s = 4 THEN S_http ELSE S_http \o <<"s">>)
    /\ HasAt(url, s + 1, S_sep)

\* then come a host of h characters, none of them a slash, and /archives/
HostAt(url, s, h) ==
    /\ AllIn(url, s + 4, s + 3 + h, {"/"}, FALSE)
    /\ HasAt(url, s + 4 + h, S_archives)

\* then a channel segment of c upper-case letters and digits, and /p
ChannelAt(url, s, h, c) ==
    /\ AllIn(url, s + 14 + h, s + 13 + h + c, Upper \cup Digits, TRUE)
    /\ HasAt(url, s + 14 + h + c, S_p)

\* then d digits, and no further digit
DigitsAt(url, s, h, c, d) ==
    /\ AllIn(url, s + 16 + h + c, s + 15 + h + c + d, Digits, TRUE)
    /\ (s + 16 + h + c + d <= Len(url) => url[s + 16 + h + c + d] \notin Digits)

Lengths(url) == 1..Len(url)

\* the ways <<s, h, c, d>> in which url begins
\* scheme://host/archives/<channel>/p<digits>
MessageUrlSplits(url) ==
    UNION { UNION { UNION { { <<s, h, c, d>> :
                                d \in { x \in Lengths(url) : DigitsAt(url, s, h, c, x) } } :
                            c \in { x \in Lengths(url) : ChannelAt(url, s, h, x) } } :
                    h \in { x \in Lengths(url) : HostAt(url, s, x) } } :
            s \in { x \in {4, 5} : SchemeAt(url, x) } }

\* the split t covers the whole url, and has at least 11 digits
WholeUrl(url, t) == Len(url) = t[1] + 15 + t[2] + t[3] + t[4] /\ t[4] >= 11

\* the pair read off a url of that form: the channel segment, and the digits
\* with a point after the 10th of them (after the last, when there are fewer)
PairOf(url, t) ==
    LET s      == t[1]
        h      == t[2]
        c      == t[3]
        d      == t[4]
        from   == s + 16 + h + c
        before == IF d < 10 THEN d ELSE 10
    IN << SubSeq(url, s + 14 + h, s + 13 + h + c),
          SubSeq(url, from, from + before - 1) \o <<".">>
              \o SubSeq(url, from + before, from + d - 1) >>

\* reply ran on a url; a reply that parsed no pair printed its one error
\* line and left with status 1 before a client existed or a call was made
ReplyRan == last.op = "reply"

RejectedUrl ==
    /\ last.exc = "none"
    /\ last.ret[1] = Outcome(1, 1, <<>>)
    /\ last.calls = <<>>
    /\ user_cache = <<>> /\ channel_cache = <<>>

\* C13 as stated: parse_slack_url returns a pair exactly for a url that as
\* a whole is scheme://host/archives/<CHANNEL>/p<digits> with at least 11
\* digits, and for every other url reply exits 1 without a client or a call.
C13_Original ==
    ReplyRan =>
        LET url == last.arg[2] IN
        /\ parse_slack_url(url) # None <=>
              \E t \in MessageUrlSplits(url) : WholeUrl(url, t)
        /\ parse_slack_url(url) = None => RejectedUrl

\* C13 amended: parse_slack_url returns a pair exactly when the url begins
\* with http:// or https://, a non-empty host, /archives/, a channel segment
\* of upper-case letters and digits, /p and at least one digit; whatever
\* follows the digits is ignored.  The pair is the channel segment and the
\* digit string with a point after its 10th digit (after its last digit when
\* there are at most 10).  For every other url it returns no match, and reply
\* then prints one error line and exits 1 without a client or a call.
C13_PrefixMatchPointAfterTenth ==
    ReplyRan =>
        LET url == last.arg[2] IN
        /\ parse_slack_url(url) # None <=> MessageUrlSplits(url) # {}
        /\ \A t \in MessageUrlSplits(url) :
              parse_slack_url(url) = Some(PairOf(url, t))
        /\ parse_slack_url(url) = None => RejectedUrl
        /\ (parse_slack_url(url) # None /\ TokenGiven) => ~RejectedUrl

\* reply ran on a url with text after only four digits: a pair was parsed,
\* its timestamp the four digits and a point
C13_Witness ==
    /\ ReplyRan
    /\ TokenGiven
    /\ last.arg[2] = S_http \o S_sep \o S_host \o S_archives \o S_C1 \o S_p
                         \o Take(S_ts16, 4) \o <<"?", "x">>
    /\ parse_slack_url(last.arg[2]) = Some(<<S_C1, Take(S_ts16, 4) \o <<".">>>>)
    /\ ~RejectedUrl


\* the operation observed in st is a listing of kind ("channels" or
\* "members"), made directly or to resolve a name, that raised a request
\* failure
FailedListing(st, kind) ==
    /\ st.exc = "RuntimeError"
    /\ st.op \in (IF kind = "channels" THEN {"list_channels", "_resolve_channel_id"}
                                       ELSE {"list_users", "_resolve_user_id"})

\* the records of the pages that were served before the call that failed
EarlierRecords(calls, kind) ==
    LET objects == ListedObjects(SubSeq(calls, 1, Len(calls) - 1), kind) IN
    IF kind = "channels"
        THEN [i \in 1..Len(objects) |-> ChannelOf(objects[i], <<>>)]
        ELSE Undeleted(objects)

\* after is before with every record of recs written under its id, in order
HoldsRecords(before, after, recs) ==
    /\ DOMAIN after = DOMAIN before \cup { recs[i].id : i \in 1..Len(recs) }
    /\ \A id \in DOMAIN after :
          LET at == { i \in 1..Len(recs) : recs[i].id = id } IN
          after[id] = IF at = {} THEN before[id]
                      ELSE recs[CHOOSE i \in at : \A j \in at : j <= i]

\* for some id, the last record recs lists is not what cache holds
BringsNew(cache, recs) ==
    \E i \in 1..Len(recs) :
        /\ \A j \in (i + 1)..Len(recs) : recs[j].id # recs[i].id
        /\ recs[i].id \notin DOMAIN cache \/ cache[recs[i].id] # recs[i]

\* C14 as stated: a listing that fails on a page after the first has written
\* the earlier pages to the cache and so leaves the cache changed, without a
\* result for the caller; only a failure on the first page leaves the caches
\* unchanged.
C14_Original ==
    [][ \A kind \in {"channels", "members"} :
          FailedListing(last', kind) =>
              LET before == IF kind = "channels" THEN channel_cache ELSE user_cache
                  after  == IF kind = "channels" THEN channel_cache' ELSE user_cache'
              IN
              /\ last'.ret = <<>>
              /\ HoldsRecords(before, after, EarlierRecords(last'.calls, kind))
              /\ Len(last'.calls) > 1 <=> after # before ]_vars

\* C14 amended: a listing that fails on page k has written the records of
\* pages 1..k-1 to its cache, where they stay, and the caller receives no
\* result; the other cache is untouched.  The cache is changed exactly when
\* for some id the last record those pages list is not what the cache held:
\* a failure on the first page always leaves the caches unchanged, and so
\* does a later failure after pages that were empty or repeated what the
\* cache held.
C14_FailedListingKeepsEarlierPages ==
    [][ \A kind \in {"channels", "members"} :
          FailedListing(last', kind) =>
              LET before == IF kind = "channels" THEN channel_cache ELSE user_cache
                  after  == IF kind = "channels" THEN channel_cache' ELSE user_cache'
                  recs   == EarlierRecords(last'.calls, kind)
              IN
              /\ last'.ret = <<>>
              /\ HoldsRecords(before, after, recs)
              /\ IF kind = "channels" THEN user_cache' = user_cache
                                      ELSE channel_cache' = channel_cache
              /\ after # before <=> BringsNew(before, recs)
              /\ Len(last'.calls) = 1 => after = before ]_vars

\* _resolve_channel_id failed on the second page of its listing, and the
\* channel of the first page is in the cache
C14_Witness ==
    /\ FailedListing(last, "channels")
    /\ last.op = "_resolve_channel_id"
    /\ Len(last.calls) = 2
    /\ Len(EarlierRecords(last.calls, "channels")) = 1
    /\ LET rec == EarlierRecords(last.calls, "channels")[1] IN
          rec.id \in DOMAIN channel_cache /\ channel_cache[rec.id] = rec

====